---------------------------- MODULE Spec2Model ----------------------------
(* Model of mhcflurry/parallelism.py: the GPU assignment of                *)
(* worker_pool_with_gpu_assignments, the queue pair built by               *)
(* make_worker_pool, the per-process initialisation of                     *)
(* worker_init_entry_point, and the exception wrapper call_wrapped; and of *)
(* get_path and configure of mhcflurry/downloads.py.                       *)
(*                                                                         *)
(* multiprocessing.Queue is modelled as a FIFO sequence: put appends,      *)
(* get(block=False) raises Empty exactly when the sequence is empty and    *)
(* get(block=True) waits until it is not.  multiprocessing.Pool keeps      *)
(* `processes` worker slots and starts a new process in a slot once the    *)
(* process that occupied it has terminated, whatever its exit code.        *)
EXTENDS Integers, Sequences, FiniteSets, TLC

(* ------------------------------ bounds ------------------------------- *)
MaxJobs == 5        \* num_jobs / processes values tried by the planner
MaxGpus == 2        \* num_gpus values tried
MaxPerGpu == 2      \* max_workers_per_gpu values tried
MaxCpu == 2         \* values cpu_count() may return
MaxArgs == 3        \* length of a caller-supplied kwargs list
MaxPool == 2        \* pool sizes whose workers are run
MaxTasks == 1       \* max_tasks_per_worker of a pool whose workers are run
MaxMsgLen == 2      \* length of an exception message
MaxDepth == 1       \* frames of the wrapped function above the failure
MaxFiles == 1       \* paths of downloads that exist at the same time

VARIABLES
    cpus,                 \* what cpu_count() returned, 0 before it is called
    call,                 \* the public function called, with its arguments
    ret,                  \* "pending", "None", "pool" or "AssertionError"
    worker_init_kwargs,   \* local of worker_pool_with_gpu_assignments
    pool_kwargs,          \* keyword arguments handed to Pool(...)
    queues,               \* TRUE once the two Queue() objects exist
    kwargs_queue,         \* primary argument queue
    kwargs_queue_backup,  \* backup argument queue
    wpc,                  \* position of the process in each worker slot
    kwargs,               \* local `kwargs` of worker_init_entry_point
    source,               \* the queue a process took its kwargs from
    finalizers,           \* exit hooks registered by a process
    tasks,                \* tasks completed by the process in a slot
    net_primary,          \* puts minus gets of a process on the primary queue
    net_backup,           \* puts minus gets of a process on the backup queue
    wrap_pc,              \* position of a call of call_wrapped
    wrap_call,            \* the entry point called and what `function` does
    fn_calls,             \* how many times `function` has been invoked
    exc_info,             \* sys.exc_info() inside the except clause
    wrap_result           \* what the call returned or raised

build_vars == <<cpus, call, ret, worker_init_kwargs, pool_kwargs, queues,
                kwargs_queue, kwargs_queue_backup>>
worker_vars == <<wpc, kwargs, source, finalizers, tasks,
                 net_primary, net_backup>>
wrap_vars == <<wrap_pc, wrap_call, fn_calls, exc_info, wrap_result>>

\* State of downloads.py.
VARIABLES
    environ,              \* os.environ: the three MHCFLURRY_* variables
    DOWNLOADS_DIR,        \* module global _DOWNLOADS_DIR
    CURRENT_RELEASE,      \* module global _CURRENT_RELEASE
    files,                \* the paths for which os.path.exists is true
    dl_pc,                \* "idle", or "done" after a call of get_path
    dl_call,              \* the arguments of that call and the globals before
    dl_result             \* what that call returned or raised

dl_vars == <<environ, DOWNLOADS_DIR, CURRENT_RELEASE, files, dl_pc, dl_call,
             dl_result>>

\* History of a pool, recorded only where a property needs it.
VARIABLES
    fresh,                \* entries of the primary queue never taken so far
    replacement           \* whether the process in a slot replaced another

hist_vars == <<fresh, replacement>>

aux_vars == <<dl_vars, hist_vars>>

(* ------------------------------ values ------------------------------- *)
Backends == {"None", "tensorflow-gpu", "tensorflow-cpu", "tensorflow-default"}

\* A Python value that is either None or a list.
NoneValue == [isNone |-> TRUE, items |-> <<>>]
ListValue(items) == [isNone |-> FALSE, items |-> items]

\* Python truthiness of an optional list: None and [] are both false.
Truthy(v) == (~v.isNone) /\ Len(v.items) > 0

\* One dict appended to worker_init_kwargs.
InitArgSet(gpu_assignment, backend) ==
    [gpu_device_nums |-> gpu_assignment, keras_backend |-> backend]

\* Keyword arguments of Pool before make_worker_pool has run.
NoPool == [processes |-> 0, maxtasksperchild |-> 0, initializer |-> "none"]

(* ------------------ worker_pool_with_gpu_assignments ------------------ *)
\* sorted(gpu_assignments_remaining, key=...)[0]: the key with the least
\* remaining count; the sort is stable and the dict iterates in insertion
\* order, so ties go to the lowest GPU number.
FirstSorted(remaining) ==
    CHOOSE g \in DOMAIN remaining :
        \A h \in DOMAIN remaining :
            \/ remaining[g] < remaining[h]
            \/ (remaining[g] = remaining[h] /\ g <= h)

\* gpu_assignments_remaining[gpu_num] -= 1, and the key is deleted when the
\* count has become 0 (`if not ...`): a count below 0 is kept.
Decrement(remaining, gpu_num) ==
    IF remaining[gpu_num] - 1 = 0
    THEN [g \in DOMAIN remaining \ {gpu_num} |-> remaining[g]]
    ELSE [remaining EXCEPT ![gpu_num] = @ - 1]

\* The loop `for worker_num in range(num_workers)`.
RECURSIVE AssignLoop(_, _, _, _)
AssignLoop(worker_num, num_workers, remaining, backend) ==
    IF worker_num >= num_workers THEN <<>>
    ELSE IF DOMAIN remaining # {}
         THEN LET gpu_num == FirstSorted(remaining)
              IN  <<InitArgSet(<<gpu_num>>, backend)>> \o
                  AssignLoop(worker_num + 1, num_workers,
                             Decrement(remaining, gpu_num), backend)
         ELSE <<InitArgSet(<<>>, backend)>> \o
              AssignLoop(worker_num + 1, num_workers, remaining, backend)

\* Mutant of the backend override: only an unspecified backend is replaced.
ForceBackendIfUnset(backend) ==
    IF backend = "None" THEN "tensorflow-default" ELSE backend

\* `if backend != "tensorflow-default": backend = "tensorflow-default"`,
\* executed only under `if num_gpus:`.
ForceBackend(backend) ==
    IF backend # "tensorflow-default" THEN "tensorflow-default" ELSE backend

\* worker_init_kwargs as computed for num_workers >= 1: None without GPUs,
\* else one dict per worker, each with the forced backend.
GpuAssignments(num_workers, num_gpus, max_workers_per_gpu, backend) ==
    IF num_gpus = 0 THEN NoneValue
    ELSE ListValue(AssignLoop(
            0, num_workers,
            [gpu \in 0 .. (num_gpus - 1) |-> max_workers_per_gpu],
            ForceBackend(backend)))

\* num_workers = num_jobs if num_jobs else cpu_count()
NumWorkers(num_jobs, ncpu) == IF num_jobs # 0 THEN num_jobs ELSE ncpu

(* -------------------------- make_worker_pool -------------------------- *)
\* Mutant of the default of `processes`: the CPU count is taken whatever the
\* caller asked for.
ProcessesFromCpuCount(processes, ncpu) == ncpu

\* `if not processes: processes = cpu_count()`
Processes(processes, ncpu) == IF processes = 0 THEN ncpu ELSE processes

\* `assert len(initializer_kwargs_per_process) == processes`, reached only
\* with an initializer and a truthy (non-empty) list.
AssertFails(processes, initializer, ikpp, ncpu) ==
    /\ initializer
    /\ Truthy(ikpp)
    /\ Len(ikpp.items) # Processes(processes, ncpu)

\* Mutant of the loop that fills a queue: the last argument set is left out.
FillQueueShort(items) ==
    IF items = <<>> THEN <<>> ELSE SubSeq(items, 1, Len(items) - 1)

\* `for kwargs in initializer_kwargs_per_process: queue.put(kwargs)` on a new
\* Queue(): the queue holds the list's entries in list order.
RECURSIVE FillQueue(_)
FillQueue(items) ==
    IF items = <<>> THEN <<>>
    ELSE <<Head(items)>> \o FillQueue(Tail(items))

\* The whole of make_worker_pool: the state it leaves behind.
make_worker_pool(processes, initializer, ikpp, max_tasks_per_worker, ncpu) ==
    LET n == Processes(processes, ncpu)
    IN  IF AssertFails(processes, initializer, ikpp, ncpu)
        THEN /\ ret' = "AssertionError"
             /\ pool_kwargs' = NoPool
             /\ queues' = FALSE
             /\ kwargs_queue' = <<>>
             /\ kwargs_queue_backup' = <<>>
             /\ UNCHANGED worker_vars
        ELSE /\ ret' = "pool"
             /\ pool_kwargs' =
                  [processes |-> n,
                   maxtasksperchild |-> max_tasks_per_worker,
                   initializer |->
                       IF ~initializer THEN "none"
                       ELSE IF Truthy(ikpp) THEN "worker_init_entry_point"
                       ELSE "initializer"]
             /\ queues' = (initializer /\ Truthy(ikpp))
             /\ kwargs_queue' =
                  IF initializer /\ Truthy(ikpp)
                  THEN FillQueue(ikpp.items) ELSE <<>>
             /\ kwargs_queue_backup' =
                  IF initializer /\ Truthy(ikpp)
                  THEN FillQueue(ikpp.items) ELSE <<>>
             \* Pool(**pool_kwargs) starts n processes
             /\ wpc' = [w \in 1 .. n |-> "start"]
             /\ kwargs' = [w \in 1 .. n |-> <<>>]
             /\ source' = [w \in 1 .. n |-> "none"]
             /\ finalizers' = [w \in 1 .. n |-> <<>>]
             /\ tasks' = [w \in 1 .. n |-> 0]
             /\ net_primary' = [w \in 1 .. n |-> 0]
             /\ net_backup' = [w \in 1 .. n |-> 0]

\* A direct call of make_worker_pool.
Call_make_worker_pool(processes, initializer, ikpp, max_tasks_per_worker, ncpu) ==
    /\ call.fn = "idle"
    /\ call' = [fn |-> "make_worker_pool", processes |-> processes,
                initializer |-> initializer,
                initializer_kwargs_per_process |-> ikpp,
                max_tasks_per_worker |-> max_tasks_per_worker]
    /\ worker_init_kwargs' = NoneValue
    /\ make_worker_pool(processes, initializer, ikpp, max_tasks_per_worker,
                        ncpu)
    /\ cpus' = IF processes = 0 THEN ncpu ELSE cpus

\* The whole of worker_pool_with_gpu_assignments.
worker_pool_with_gpu_assignments(num_jobs, num_gpus, backend, max_workers_per_gpu, max_tasks_per_worker, ncpu) ==
    LET num_workers == NumWorkers(num_jobs, ncpu)
    IN  /\ call.fn = "idle"
        /\ call' = [fn |-> "worker_pool_with_gpu_assignments",
                    num_jobs |-> num_jobs, num_gpus |-> num_gpus,
                    backend |-> backend,
                    max_workers_per_gpu |-> max_workers_per_gpu,
                    max_tasks_per_worker |-> max_tasks_per_worker]
        /\ cpus' = IF num_jobs = 0 THEN ncpu ELSE cpus
        /\ IF num_workers = 0
           THEN /\ ret' = "None"
                /\ worker_init_kwargs' = NoneValue
                /\ UNCHANGED <<pool_kwargs, queues, kwargs_queue,
                               kwargs_queue_backup>>
                /\ UNCHANGED worker_vars
           ELSE /\ worker_init_kwargs' =
                     GpuAssignments(num_workers, num_gpus,
                                    max_workers_per_gpu, backend)
                /\ make_worker_pool(num_workers, TRUE, worker_init_kwargs',
                                    max_tasks_per_worker, ncpu)
(* ---------------- WrapException, call_wrapped ------------------------ *)
\* Text is a sequence of pieces: single characters of a message, and fixed
\* pieces of a formatted traceback.
Chars == {"a", "\n"}

RECURSIVE Strings(_)
Strings(n) ==
    IF n = 0 THEN {<<>>}
    ELSE Strings(n - 1) \cup
         {Append(t, c) : t \in {u \in Strings(n - 1) : Len(u) = n - 1},
                         c \in Chars}

ExceptionTypes == {"ValueError", "KeyboardInterrupt"}

NoException == [kind |-> "none"]

\* Exception.__str__: the empty string without arguments, else str(args[0]).
ExceptionStr(args) == IF args = <<>> THEN <<>> ELSE args[1]

\* traceback.format_exception_only: "Type: message\n", or "Type\n" when the
\* exception's string is empty.
FormatExceptionOnly(exc_type, exc_value) ==
    IF ExceptionStr(exc_value.args) = <<>>
    THEN <<exc_type, "\n">>
    ELSE <<exc_type, ":", " ">> \o ExceptionStr(exc_value.args) \o <<"\n">>

\* traceback.format_tb: one entry per frame between the except clause and
\* the point of failure, the frame of call_wrapped first.
FormatTb(exc_tb) ==
    [i \in 1 .. exc_tb |->
        IF i = 1 THEN "  File parallelism.py, in call_wrapped\n"
        ELSE "  File function\n"]

\* ''.join(traceback.format_exception(exc_type, exc_value, exc_tb))
FormatException(exc_type, exc_value, exc_tb) ==
    <<"Traceback (most recent call last):", "\n">>
        \o FormatTb(exc_tb) \o FormatExceptionOnly(exc_type, exc_value)

\* WrapException(): built without arguments, so its own args are (); it
\* keeps the exception being handled and its formatted traceback.
WrapException(info) ==
    [kind |-> "raise",
     type |-> "WrapException",
     args |-> <<>>,
     exception |-> info.value,
     formatted |-> FormatException(info.type, info.value, info.tb)]

\* Mutant of WrapException.__str__: the string starts with the original
\* exception's own string.
WrapException__str__Original(self) ==
    ExceptionStr(self.exception.args)
        \o <<"\n", "Original traceback:", "\n">> \o self.formatted

\* WrapException.__str__
WrapException__str__(self) ==
    ExceptionStr(self.args) \o <<"\n", "Original traceback:", "\n">>
        \o self.formatted

\* call_wrapped(function, *args, **kwargs) is entered, directly or through
\* call_wrapped_kwargs(function, kwargs).
call_wrapped(entry, behaviour) ==
    /\ wrap_pc = "idle"
    /\ wrap_call' = [fn |-> entry, function |-> behaviour]
    /\ wrap_pc' = "in_function"
    /\ UNCHANGED <<fn_calls, exc_info, wrap_result>>

\* `return function(*args, **kwargs)`: the function returns a value.
FunctionReturns ==
    /\ wrap_pc = "in_function"
    /\ wrap_call.function.kind = "return"
    /\ fn_calls' = fn_calls + 1
    /\ wrap_result' = [kind |-> "return", value |-> wrap_call.function.value]
    /\ wrap_pc' = "returned"
    /\ UNCHANGED <<wrap_call, exc_info>>

\* The function raises: control reaches the bare `except:` clause with the
\* exception as sys.exc_info().
FunctionRaises ==
    /\ wrap_pc = "in_function"
    /\ wrap_call.function.kind = "raise"
    /\ fn_calls' = fn_calls + 1
    /\ exc_info' = [kind |-> "exception",
                    type |-> wrap_call.function.type,
                    value |-> [type |-> wrap_call.function.type,
                               args |-> wrap_call.function.args],
                    tb |-> 1 + wrap_call.function.depth]
    /\ wrap_pc' = "except"
    /\ UNCHANGED <<wrap_call, wrap_result>>

\* Mutant of the except clause: `except Exception:` instead of a bare
\* `except:`, so that a KeyboardInterrupt passes through unwrapped.
RaiseOnlyException ==
    /\ wrap_pc = "except"
    /\ wrap_result' =
         IF exc_info.type = "KeyboardInterrupt"
         THEN [kind |-> "raise", type |-> exc_info.type,
               args |-> exc_info.value.args, exception |-> exc_info.value,
               formatted |-> <<>>]
         ELSE WrapException(exc_info)
    /\ wrap_pc' = "raised"
    /\ UNCHANGED <<wrap_call, fn_calls, exc_info>>

\* `raise WrapException()`
RaiseWrapException ==
    /\ wrap_pc = "except"
    /\ wrap_result' = WrapException(exc_info)
    /\ wrap_pc' = "raised"
    /\ UNCHANGED <<wrap_call, fn_calls, exc_info>>

\* What the wrapped function may do: return a value, or raise an exception
\* of some type, with or without a message, some frames deep.
Behaviours ==
    {[kind |-> "return", value |-> v] : v \in {"None", "result"}}
    \cup
    {[kind |-> "raise", type |-> t, args |-> a, depth |-> d] :
        t \in ExceptionTypes,
        a \in {<<>>} \cup {<<m>> : m \in Strings(MaxMsgLen)},
        d \in 0 .. MaxDepth}

NextWrap ==
    \/ \E entry \in {"call_wrapped", "call_wrapped_kwargs"},
          behaviour \in Behaviours :
            call_wrapped(entry, behaviour)
            /\ UNCHANGED <<build_vars, worker_vars, aux_vars>>
    \/ FunctionReturns /\ UNCHANGED <<build_vars, worker_vars, aux_vars>>
    \/ FunctionRaises /\ UNCHANGED <<build_vars, worker_vars, aux_vars>>
    \/ RaiseWrapException /\ UNCHANGED <<build_vars, worker_vars, aux_vars>>

(* ---------------- downloads.py: configure, get_path ------------------- *)
\* A string is a sequence of characters and fixed pieces of text; a value
\* that may be None is a record.
NoneStr == [isNone |-> TRUE, str |-> <<>>]
Str(s) == [isNone |-> FALSE, str |-> s]

\* Python truthiness of an optional string: None and '' are both false.
TruthyStr(v) == (~v.isNone) /\ v.str # <<>>

\* The names in ENVIRONMENT_VARIABLES.
ENVIRONMENT_VARIABLES ==
    {"MHCFLURRY_DATA_DIR", "MHCFLURRY_DOWNLOADS_CURRENT_RELEASE",
     "MHCFLURRY_DOWNLOADS_DIR"}

\* Values a caller may give the variables: a directory, a data directory
\* with a space in its name, a release downloads.yml does not list.
EnvChoices(name) ==
    IF name = "MHCFLURRY_DOWNLOADS_DIR" THEN {Str(<<"/", "d">>)}
    ELSE IF name = "MHCFLURRY_DATA_DIR" THEN {Str(<<"/", "e", " ">>)}
    ELSE {Str(<<"9">>)}

\* downloads.yml: the releases listed and metadata['current-release'].
ReleasesInMetadata == {<<"1">>}
CurrentReleaseInMetadata == <<"1">>

\* appdirs.user_data_dir("mhcflurry", version="4")
UserDataDir == <<"/", "u">>

\* posixpath.join of two parts: an absolute second part replaces the first.
Join2(a, b) ==
    IF b # <<>> /\ b[1] = "/" THEN b
    ELSE IF a = <<>> \/ a[Len(a)] = "/" THEN a \o b
    ELSE a \o <<"/">> \o b

\* os.path.join(a, b, c)
Join3(a, b, c) == Join2(Join2(a, b), c)

\* The characters pipes.quote leaves alone, of those used here.
SafeChars == {"/", "d", "e", "u", "n", "a", "b", "f", "1", "9"}

\* s.replace("'", "'\"'\"'")
RECURSIVE EscapeQuotes(_)
EscapeQuotes(s) ==
    IF s = <<>> THEN <<>>
    ELSE (IF Head(s) = "'" THEN <<"'", "\"", "'", "\"", "'">>
          ELSE <<Head(s)>>) \o EscapeQuotes(Tail(s))

\* pipes.quote
quote(s) ==
    IF s = <<>> THEN <<"'", "'">>
    ELSE IF \A i \in 1 .. Len(s) : s[i] \in SafeChars THEN s
    ELSE <<"'">> \o EscapeQuotes(s) \o <<"'">>

\* os.path.exists
exists(path) == path \in files

\* The message of the RuntimeError of get_path.
MissingText(path, download_name) ==
    <<"Missing MHCflurry downloadable file: ">> \o quote(path)
        \o <<". To download this data, run:\n\t",
              "mhcflurry-downloads fetch ">>
        \o download_name \o <<"\nin a shell.">>

\* Mutant of the test of get_path: test_exists is ignored.
MissingAlways(test_exists, path) == ~exists(path)

\* `if test_exists and not exists(path)`
Missing(test_exists, path) == test_exists /\ ~exists(path)

\* What get_path returns or raises, statement by statement.
get_path_result(download_name, filename, test_exists) ==
    IF \E i \in 1 .. Len(download_name) : download_name[i] = "/"
    THEN [kind |-> "raise", type |-> "AssertionError",
          text |-> <<"Invalid download: ">> \o download_name]
    ELSE IF DOWNLOADS_DIR.isNone
    THEN [kind |-> "raise", type |-> "TypeError", text |-> <<>>]
    ELSE LET path == Join3(DOWNLOADS_DIR.str, download_name, filename)
         IN  IF Missing(test_exists, path)
             THEN [kind |-> "raise", type |-> "RuntimeError",
                   text |-> MissingText(path, download_name)]
             ELSE [kind |-> "return", path |-> path]

\* A call of get_path: it reads the globals and the file system.
get_path(download_name, filename, test_exists) ==
    /\ dl_pc = "idle"
    /\ dl_call' = [download_name |-> download_name, filename |-> filename,
                   test_exists |-> test_exists,
                   downloads_dir |-> DOWNLOADS_DIR,
                   current_release |-> CURRENT_RELEASE]
    /\ dl_result' = get_path_result(download_name, filename, test_exists)
    /\ dl_pc' = "done"
    /\ UNCHANGED <<environ, DOWNLOADS_DIR, CURRENT_RELEASE, files>>

\* The caller has the result and goes on.
get_path_done ==
    /\ dl_pc = "done"
    /\ dl_pc' = "idle"
    /\ dl_call' = [download_name |-> <<>>]
    /\ dl_result' = [kind |-> "pending"]
    /\ UNCHANGED <<environ, DOWNLOADS_DIR, CURRENT_RELEASE, files>>

\* The release configure() settles on when no downloads directory is given.
ConfiguredRelease ==
    IF TruthyStr(environ["MHCFLURRY_DOWNLOADS_CURRENT_RELEASE"])
    THEN environ["MHCFLURRY_DOWNLOADS_CURRENT_RELEASE"]
    ELSE Str(CurrentReleaseInMetadata)

\* data_dir of configure()
ConfiguredDataDir ==
    IF TruthyStr(environ["MHCFLURRY_DATA_DIR"])
    THEN environ["MHCFLURRY_DATA_DIR"].str
    ELSE UserDataDir

\* configure(): the globals it leaves behind.  With a release that
\* downloads.yml does not list, metadata["releases"][_CURRENT_RELEASE]
\* raises KeyError after both globals have been assigned.
configure ==
    /\ dl_pc = "idle"
    /\ IF TruthyStr(environ["MHCFLURRY_DOWNLOADS_DIR"])
       THEN /\ CURRENT_RELEASE' = NoneStr
            /\ DOWNLOADS_DIR' = environ["MHCFLURRY_DOWNLOADS_DIR"]
       ELSE /\ CURRENT_RELEASE' = ConfiguredRelease
            /\ DOWNLOADS_DIR' =
                 IF ConfiguredRelease.str \in ReleasesInMetadata
                 THEN Str(Join2(ConfiguredDataDir, ConfiguredRelease.str))
                 ELSE environ["MHCFLURRY_DOWNLOADS_DIR"]
    /\ UNCHANGED <<environ, files, dl_pc, dl_call, dl_result>>

\* The caller sets or unsets an environment variable.
SetEnviron(name, value) ==
    /\ dl_pc = "idle"
    /\ environ' = [environ EXCEPT ![name] = value]
    /\ UNCHANGED <<DOWNLOADS_DIR, CURRENT_RELEASE, files, dl_pc, dl_call,
                   dl_result>>

\* Arguments get_path is called with: a download, a name with a slash, a
\* name with a quote; no file name, a relative one, an absolute one.
DownloadNames == {<<"n">>, <<"a", "/", "b">>, <<"n", "'">>}
Filenames == {<<>>, <<"f">>, <<"/", "f">>}

\* The paths that may exist.
Paths ==
    {Join3(d, n, f) :
        d \in {<<"/", "d">>, <<"/", "u", "/", "1">>, <<"/", "e", " ", "/", "1">>},
        n \in DownloadNames, f \in Filenames}

\* A download is fetched, or removed.
CreateFile(path) ==
    /\ dl_pc = "idle"
    /\ path \notin files
    /\ Cardinality(files) < MaxFiles
    /\ files' = files \cup {path}
    /\ UNCHANGED <<environ, DOWNLOADS_DIR, CURRENT_RELEASE, dl_pc, dl_call,
                   dl_result>>

RemoveFile(path) ==
    /\ dl_pc = "idle"
    /\ path \in files
    /\ files' = files \ {path}
    /\ UNCHANGED <<environ, DOWNLOADS_DIR, CURRENT_RELEASE, dl_pc, dl_call,
                   dl_result>>

\* The module has been imported with no MHCFLURRY_* variable set:
\* configure() has run once.
InitDownloads ==
    /\ environ = [name \in ENVIRONMENT_VARIABLES |-> NoneStr]
    /\ CURRENT_RELEASE = Str(CurrentReleaseInMetadata)
    /\ DOWNLOADS_DIR = Str(Join2(UserDataDir, CurrentReleaseInMetadata))
    /\ files = {}
    /\ dl_pc = "idle"
    /\ dl_call = [download_name |-> <<>>]
    /\ dl_result = [kind |-> "pending"]

(* --------------------------- initial state --------------------------- *)
Init ==
    /\ cpus = 0
    /\ call = [fn |-> "idle"]
    /\ ret = "pending"
    /\ worker_init_kwargs = NoneValue
    /\ pool_kwargs = NoPool
    /\ queues = FALSE
    /\ kwargs_queue = <<>>
    /\ kwargs_queue_backup = <<>>
    /\ wpc = <<>>
    /\ kwargs = <<>>
    /\ source = <<>>
    /\ finalizers = <<>>
    /\ tasks = <<>>
    /\ net_primary = <<>>
    /\ net_backup = <<>>
    /\ wrap_pc = "idle"
    /\ wrap_call = [fn |-> "idle"]
    /\ fn_calls = 0
    /\ exc_info = NoException
    /\ wrap_result = [kind |-> "pending"]
    /\ InitDownloads
    /\ fresh = 0
    /\ replacement = <<>>

vars == <<build_vars, worker_vars, wrap_vars, dl_vars, hist_vars>>

(* ------------------ building a pool (no worker runs) ------------------ *)
\* A caller-supplied list of L distinct argument dicts.
ArgList(L) == [i \in 1 .. L |-> InitArgSet(<<i - 1>>, "tensorflow-default")]

KwargsChoices ==
    {NoneValue} \cup {ListValue(ArgList(L)) : L \in 0 .. MaxArgs}

BuildFromGpuArgs ==
    \E num_jobs \in 0 .. MaxJobs, num_gpus \in 0 .. MaxGpus,
       backend \in Backends, max_workers_per_gpu \in 0 .. MaxPerGpu,
       max_tasks_per_worker \in 0 .. 1, ncpu \in 1 .. MaxCpu :
        worker_pool_with_gpu_assignments(
            num_jobs, num_gpus, backend, max_workers_per_gpu,
            max_tasks_per_worker, ncpu)

BuildDirect ==
    \E processes \in 0 .. MaxArgs, initializer \in BOOLEAN,
       ikpp \in KwargsChoices, max_tasks_per_worker \in 0 .. 1,
       ncpu \in 1 .. MaxCpu :
        Call_make_worker_pool(processes, initializer, ikpp,
                              max_tasks_per_worker, ncpu)

NextBuild ==
    \/ BuildFromGpuArgs /\ UNCHANGED <<wrap_vars, aux_vars>>
    \/ BuildDirect /\ UNCHANGED <<wrap_vars, aux_vars>>

SpecBuild == Init /\ [][NextBuild]_vars

SpecWrap == Init /\ [][NextWrap]_vars

\* Calls of get_path between changes of the environment, of the
\* configuration and of the downloads on disk.
NextDownloads ==
    \/ \E download_name \in DownloadNames, filename \in Filenames,
          test_exists \in BOOLEAN :
            get_path(download_name, filename, test_exists)
            /\ UNCHANGED <<build_vars, worker_vars, wrap_vars, hist_vars>>
    \/ get_path_done
        /\ UNCHANGED <<build_vars, worker_vars, wrap_vars, hist_vars>>
    \/ configure
        /\ UNCHANGED <<build_vars, worker_vars, wrap_vars, hist_vars>>
    \/ \E name \in ENVIRONMENT_VARIABLES :
          \E value \in {NoneStr} \cup EnvChoices(name) :
            SetEnviron(name, value)
            /\ UNCHANGED <<build_vars, worker_vars, wrap_vars, hist_vars>>
    \/ \E path \in Paths : CreateFile(path)
        /\ UNCHANGED <<build_vars, worker_vars, wrap_vars, hist_vars>>
    \/ \E path \in Paths : RemoveFile(path)
        /\ UNCHANGED <<build_vars, worker_vars, wrap_vars, hist_vars>>

SpecDownloads == Init /\ [][NextDownloads]_vars
(* ------------------- worker processes of a started pool --------------- *)
Workers == DOMAIN wpc

Live(w) ==
    wpc[w] \in {"start", "backup_get", "backup_put", "init", "ready",
                "exiting"}

\* Mutant of the registration: init_function is called with no exit hook
\* registered.
SkipFinalizer(w, kw) ==
    /\ UNCHANGED finalizers
    /\ wpc' = [wpc EXCEPT ![w] = "init"]

\* Finalize(None, arg_queue.put, (kwargs,), exitpriority=1): the exit hook
\* is registered with the kwargs the process holds; init_function is next.
RegisterFinalizer(w, kw) ==
    /\ finalizers' = [finalizers EXCEPT ![w] = @ \o kw]
    /\ wpc' = [wpc EXCEPT ![w] = "init"]

\* Mutant of the read of the primary queue: the process never takes an entry
\* from it and always turns to the backup queue.
PrimaryGetAlwaysEmpty(w) ==
    /\ wpc[w] = "start"
    /\ pool_kwargs.initializer = "worker_init_entry_point"
    /\ wpc' = [wpc EXCEPT ![w] = "backup_get"]
    /\ UNCHANGED <<build_vars, kwargs, source, finalizers, tasks,
                   net_primary, net_backup>>

\* kwargs = {} ; kwargs = arg_queue.get(block=False).  With an entry the
\* process goes on to register its exit hook; on queue.Empty it turns to
\* the backup queue.
PrimaryGet(w) ==
    /\ wpc[w] = "start"
    /\ pool_kwargs.initializer = "worker_init_entry_point"
    /\ IF kwargs_queue # <<>>
       THEN /\ kwargs' = [kwargs EXCEPT ![w] = <<Head(kwargs_queue)>>]
            /\ kwargs_queue' = Tail(kwargs_queue)
            /\ source' = [source EXCEPT ![w] = "primary"]
            /\ net_primary' = [net_primary EXCEPT ![w] = @ - 1]
            /\ RegisterFinalizer(w, kwargs'[w])
       ELSE /\ wpc' = [wpc EXCEPT ![w] = "backup_get"]
            /\ UNCHANGED <<kwargs, kwargs_queue, source, net_primary,
                           finalizers>>
    /\ UNCHANGED <<cpus, call, ret, worker_init_kwargs, pool_kwargs, queues,
                   kwargs_queue_backup, tasks, net_backup>>

\* kwargs = backup_arg_queue.get(block=True): waits for an entry.
BackupGet(w) ==
    /\ wpc[w] = "backup_get"
    /\ kwargs_queue_backup # <<>>
    /\ kwargs' = [kwargs EXCEPT ![w] = <<Head(kwargs_queue_backup)>>]
    /\ kwargs_queue_backup' = Tail(kwargs_queue_backup)
    /\ source' = [source EXCEPT ![w] = "backup"]
    /\ net_backup' = [net_backup EXCEPT ![w] = @ - 1]
    /\ wpc' = [wpc EXCEPT ![w] = "backup_put"]
    /\ UNCHANGED <<cpus, call, ret, worker_init_kwargs, pool_kwargs, queues,
                   kwargs_queue, finalizers, tasks, net_primary>>

\* backup_arg_queue.put(kwargs), then the exit hook is registered.
BackupPut(w) ==
    /\ wpc[w] = "backup_put"
    /\ kwargs_queue_backup' = kwargs_queue_backup \o kwargs[w]
    /\ net_backup' = [net_backup EXCEPT ![w] = @ + Len(kwargs[w])]
    /\ RegisterFinalizer(w, kwargs[w])
    /\ UNCHANGED <<cpus, call, ret, worker_init_kwargs, pool_kwargs, queues,
                   kwargs_queue, kwargs, source, tasks, net_primary>>

\* init_function(**kwargs) returns: the process is ready for tasks.
InitFunction(w) ==
    /\ wpc[w] = "init"
    /\ wpc' = [wpc EXCEPT ![w] = "ready"]
    /\ UNCHANGED <<build_vars, kwargs, source, finalizers, tasks,
                   net_primary, net_backup>>

\* init_function(**kwargs) raises: the process ends, running its exit hooks.
InitFunctionRaises(w) ==
    /\ wpc[w] = "init"
    /\ wpc' = [wpc EXCEPT ![w] = "exiting"]
    /\ UNCHANGED <<build_vars, kwargs, source, finalizers, tasks,
                   net_primary, net_backup>>

\* Pool without per-process arguments: initializer() is called directly.
PlainInitializer(w) ==
    /\ wpc[w] = "start"
    /\ pool_kwargs.initializer # "worker_init_entry_point"
    /\ wpc' = [wpc EXCEPT ![w] = "ready"]
    /\ UNCHANGED <<build_vars, kwargs, source, finalizers, tasks,
                   net_primary, net_backup>>

\* The process completes one task.  Only with maxtasksperchild set does the
\* count matter: after that many tasks the process leaves its task loop and
\* exits normally.
RunTask(w) ==
    /\ wpc[w] = "ready"
    /\ IF pool_kwargs.maxtasksperchild > 0
       THEN /\ tasks' = [tasks EXCEPT ![w] = @ + 1]
            /\ wpc' = [wpc EXCEPT ![w] =
                         IF tasks[w] + 1 >= pool_kwargs.maxtasksperchild
                         THEN "exiting" ELSE "ready"]
       ELSE UNCHANGED <<tasks, wpc>>
    /\ UNCHANGED <<build_vars, kwargs, source, finalizers, net_primary,
                   net_backup>>

\* Mutant of the process exit: the registered hooks are dropped unrun.
ExitWithoutFinalizers(w) ==
    /\ wpc[w] = "exiting"
    /\ finalizers' = [finalizers EXCEPT ![w] = <<>>]
    /\ kwargs' = [kwargs EXCEPT ![w] = <<>>]
    /\ wpc' = [wpc EXCEPT ![w] = "exited"]
    /\ UNCHANGED <<build_vars, source, tasks, net_primary, net_backup>>

\* Normal process exit: the registered hooks run, arg_queue.put(kwargs).
RunFinalizers(w) ==
    /\ wpc[w] = "exiting"
    /\ kwargs_queue' = kwargs_queue \o finalizers[w]
    /\ net_primary' = [net_primary EXCEPT ![w] = @ + Len(finalizers[w])]
    /\ finalizers' = [finalizers EXCEPT ![w] = <<>>]
    /\ kwargs' = [kwargs EXCEPT ![w] = <<>>]
    /\ wpc' = [wpc EXCEPT ![w] = "exited"]
    /\ UNCHANGED <<cpus, call, ret, worker_init_kwargs, pool_kwargs, queues,
                   kwargs_queue_backup, source, tasks, net_backup>>

\* A new process in slot w: nothing read, nothing registered, no task run.
NewProcess(w) ==
    /\ wpc' = [wpc EXCEPT ![w] = "start"]
    /\ kwargs' = [kwargs EXCEPT ![w] = <<>>]
    /\ source' = [source EXCEPT ![w] = "none"]
    /\ finalizers' = [finalizers EXCEPT ![w] = <<>>]
    /\ tasks' = [tasks EXCEPT ![w] = 0]
    /\ net_primary' = [net_primary EXCEPT ![w] = 0]
    /\ net_backup' = [net_backup EXCEPT ![w] = 0]

\* The process is killed, so that no exit hook runs, and the pool puts a
\* new process in its slot.
Crash(w) ==
    /\ Live(w)
    /\ NewProcess(w)
    /\ UNCHANGED build_vars

\* The pool replaces a process that has exited by a new one in its slot.
Repopulate(w) ==
    /\ wpc[w] = "exited"
    /\ NewProcess(w)
    /\ UNCHANGED build_vars

\* worker_init_entry_point, one statement at a time.
worker_init_entry_point(w) ==
    \/ PrimaryGet(w)
    \/ BackupGet(w)
    \/ BackupPut(w)
    \/ InitFunction(w)
    \/ InitFunctionRaises(w)

\* A pool of num_jobs workers, without GPUs or with one GPU per worker.
StartPool ==
    \E num_jobs \in 1 .. MaxPool, use_gpus \in BOOLEAN,
       max_tasks_per_worker \in {0, MaxTasks}, ncpu \in 1 .. MaxCpu :
        worker_pool_with_gpu_assignments(
            num_jobs, IF use_gpus THEN num_jobs ELSE 0, "None", 1,
            max_tasks_per_worker, ncpu)

\* A step of the process in slot w, crashes apart.
WorkerStep(w) ==
    /\ w \in Workers
    /\ \/ worker_init_entry_point(w)
       \/ PlainInitializer(w)
       \/ RunTask(w)
       \/ RunFinalizers(w)
       \/ Repopulate(w)
    /\ UNCHANGED <<wrap_vars, aux_vars>>

NextPool ==
    \/ StartPool /\ UNCHANGED <<wrap_vars, aux_vars>>
    \/ \E w \in Workers : WorkerStep(w)
    \/ \E w \in Workers : Crash(w) /\ UNCHANGED <<wrap_vars, aux_vars>>

SpecPool == Init /\ [][NextPool]_vars
\* The workers are scheduled fairly; a crash is never forced to happen.
LivePool == SpecPool /\ \A w \in 1 .. MaxPool : WF_vars(WorkerStep(w))

(* ------------- a pool whose processes are never killed ---------------- *)
\* A pool of num_jobs workers for any GPU count and cap; the history starts
\* with every entry of the primary queue untaken and no process replaced.
StartRecycle ==
    /\ \E num_jobs \in 1 .. MaxPool, num_gpus \in 0 .. MaxGpus,
          max_workers_per_gpu \in 0 .. MaxPerGpu,
          max_tasks_per_worker \in {0, MaxTasks}, ncpu \in 1 .. MaxCpu :
            worker_pool_with_gpu_assignments(
                num_jobs, num_gpus, "None", max_workers_per_gpu,
                max_tasks_per_worker, ncpu)
    /\ fresh' = Len(kwargs_queue')
    /\ replacement' = [w \in DOMAIN wpc' |-> FALSE]

\* What a step of the process in slot w adds to the history: an entry read
\* from the primary queue is an untaken one as long as there are any (they
\* are ahead of every entry an exit hook appended), and the process that
\* the pool starts in the slot of an exited one is a replacement.
History(w) ==
    /\ fresh' = IF wpc[w] = "start" /\ source'[w] = "primary" /\ fresh > 0
                THEN fresh - 1 ELSE fresh
    /\ replacement' = IF wpc[w] = "exited" /\ wpc'[w] = "start"
                      THEN [replacement EXCEPT ![w] = TRUE]
                      ELSE replacement

\* A step of the process in slot w, with the history.
RecycleStep(w) ==
    /\ w \in Workers
    /\ \/ worker_init_entry_point(w)
       \/ PlainInitializer(w)
       \/ RunTask(w)
       \/ RunFinalizers(w)
       \/ Repopulate(w)
    /\ History(w)
    /\ UNCHANGED <<wrap_vars, dl_vars>>

NextRecycle ==
    \/ StartRecycle /\ UNCHANGED <<wrap_vars, dl_vars>>
    \/ \E w \in Workers : RecycleStep(w)

SpecRecycle == Init /\ [][NextRecycle]_vars

(* ------------------------- helper operators -------------------------- *)
Range(seq) == {seq[i] : i \in 1 .. Len(seq)}

Count(seq, x) == Cardinality({i \in 1 .. Len(seq) : seq[i] = x})

SameMultiset(s, t) ==
    /\ Len(s) = Len(t)
    /\ \A x \in Range(s) \cup Range(t) : Count(s, x) = Count(t, x)

IsPrefix(s, t) == Len(s) <= Len(t) /\ SubSeq(t, 1, Len(s)) = s

IsSuffix(s, t) ==
    Len(s) <= Len(t) /\ SubSeq(t, Len(t) - Len(s) + 1, Len(t)) = s

FromGpuArgs == call.fn = "worker_pool_with_gpu_assignments"

\* The argument sets the queue pair was created with.
OriginalArgs == worker_init_kwargs.items

(* ------------------------------ claims ------------------------------- *)
\* C1: round-robin assignment.  With num_gpus >= 1 and
\* max_workers_per_gpu >= 1, worker i < num_gpus * max_workers_per_gpu is
\* assigned GPU (i mod num_gpus).
C1_RoundRobin ==
    (FromGpuArgs /\ ret = "pool" /\ call.num_gpus >= 1
        /\ call.max_workers_per_gpu >= 1)
    => \A i \in 1 .. Len(worker_init_kwargs.items) :
         (i - 1) < call.num_gpus * call.max_workers_per_gpu
         => worker_init_kwargs.items[i].gpu_device_nums
              = <<(i - 1) % call.num_gpus>>

\* C2: num_jobs = 0 returns None, starts no worker process and creates no
\* queue, whatever the other arguments.
C2_ZeroJobsNoPool ==
    (FromGpuArgs /\ call.num_jobs = 0)
    => /\ ret = "None"
       /\ pool_kwargs.processes = 0
       /\ ~queues
       /\ Workers = {}

\* C3: each GPU id occurs in the gpu_device_nums of at most
\* max_workers_per_gpu workers of the per-worker argument list.
C3_GpuCap ==
    (FromGpuArgs /\ ~worker_init_kwargs.isNone)
    => \A gpu \in 0 .. (call.num_gpus - 1) :
         Count([i \in 1 .. Len(worker_init_kwargs.items) |->
                   worker_init_kwargs.items[i].gpu_device_nums],
               <<gpu>>) <= call.max_workers_per_gpu

\* C4: make_worker_pool with an initializer, processes = P >= 1 and a list
\* of any length L # P (L = 0 included) fails before a queue is filled or a
\* worker started.
C4_LengthMismatchFails ==
    (/\ call.fn = "make_worker_pool"
     /\ call.initializer
     /\ call.processes >= 1
     /\ ~call.initializer_kwargs_per_process.isNone
     /\ Len(call.initializer_kwargs_per_process.items) # call.processes)
    => /\ ret = "AssertionError"
       /\ ~queues
       /\ kwargs_queue = <<>>
       /\ kwargs_queue_backup = <<>>
       /\ pool_kwargs.processes = 0
       /\ Workers = {}

\* C5: in every reachable state of a pool with a queue pair the backup queue
\* holds exactly N entries, the multiset it was created with.
C5_BackupAlwaysFull ==
    queues
    => /\ Len(kwargs_queue_backup) = pool_kwargs.processes
       /\ SameMultiset(kwargs_queue_backup, OriginalArgs)

\* C6 as stated: a process that has gone through init and teardown has put
\* as many entries on the backup queue as it took from it, and likewise on
\* the primary queue, whichever queue its argument set came from.
C6_CycleLeavesBothSizes ==
    \A w \in Workers :
        (wpc[w] = "exited" /\ source[w] # "none")
        => net_backup[w] = 0 /\ net_primary[w] = 0

\* C6 amended: over a full init->teardown cycle a process leaves the backup
\* queue's size as it was; it leaves the primary queue's size as it was when
\* its argument set came from the primary queue, and one larger when the set
\* came from the backup queue.
C6_CycleNetEffect ==
    \A w \in Workers :
        (wpc[w] = "exited" /\ source[w] # "none")
        => /\ net_backup[w] = 0
           /\ net_primary[w] = IF source[w] = "backup" THEN 1 ELSE 0

\* C6 witness: a process that took its set from the backup queue has
\* completed its exit hook.
C6_Witness ==
    \E w \in Workers : wpc[w] = "exited" /\ source[w] = "backup"

\* C7: a process that found the primary queue empty eventually gets past the
\* blocking read of the backup queue, and when it has put its set back, and
\* no other process is between its own read and put, the backup queue holds
\* N entries again.
C7_InitNeverStuck ==
    /\ [][\A w \in Workers :
            (/\ wpc[w] = "backup_put"
             /\ wpc'[w] = "init"
             /\ \A v \in Workers : wpc'[v] # "backup_put")
            => Len(kwargs_queue_backup') = pool_kwargs.processes]_vars
    /\ \A w \in 1 .. MaxPool :
         (w \in Workers /\ wpc[w] = "backup_get")
            ~> (w \in Workers /\ wpc[w] # "backup_get")

\* C8: whatever crashes happened, the backup queue has lost no argument set
\* (once every set read from it has been put back) and no process waits on
\* a backup queue that nobody will refill.
C8_CrashTolerant ==
    (queues /\ \A v \in Workers : wpc[v] # "backup_put")
    => /\ SameMultiset(kwargs_queue_backup, OriginalArgs)
       /\ ~(\E w \in Workers :
              wpc[w] = "backup_get" /\ kwargs_queue_backup = <<>>)
\* C9: a call of call_wrapped or call_wrapped_kwargs invokes the function
\* once; what the function returns is returned unchanged; whatever it raises
\* reaches the caller as a WrapException that carries the exception object
\* and a non-empty formatted traceback with the frames down to the point of
\* failure and the exception's own line.
C9_ExceptionsWrapped ==
    /\ fn_calls <= 1
    /\ wrap_pc \in {"returned", "raised"}
       => /\ fn_calls = 1
          /\ IF wrap_call.function.kind = "raise"
             THEN /\ wrap_pc = "raised"
                  /\ wrap_result.kind = "raise"
                  /\ wrap_result.type = "WrapException"
                  /\ wrap_result.exception =
                       [type |-> wrap_call.function.type,
                        args |-> wrap_call.function.args]
                  /\ wrap_result.formatted # <<>>
                  /\ SubSeq(wrap_result.formatted, 3,
                            3 + wrap_call.function.depth)
                       = FormatTb(1 + wrap_call.function.depth)
                  /\ IsSuffix(FormatExceptionOnly(wrap_call.function.type,
                                                  wrap_result.exception),
                              wrap_result.formatted)
             ELSE /\ wrap_pc = "returned"
                  /\ wrap_result =
                       [kind |-> "return",
                        value |-> wrap_call.function.value]

\* C9 witness: a KeyboardInterrupt raised below call_wrapped_kwargs has
\* reached the caller.
C9_Witness ==
    /\ wrap_pc = "raised"
    /\ wrap_call.fn = "call_wrapped_kwargs"
    /\ wrap_call.function.type = "KeyboardInterrupt"
    /\ wrap_call.function.depth = MaxDepth

\* C10 as stated: str(wrapper) is str(e) followed by the formatted
\* traceback; it begins with str(e) and ends with the traceback.
C10_StrIsOriginalPlusTraceback ==
    wrap_pc = "raised"
    => /\ WrapException__str__(wrap_result)
            = ExceptionStr(wrap_result.exception.args)
                \o wrap_result.formatted
       /\ IsPrefix(ExceptionStr(wrap_result.exception.args),
                   WrapException__str__(wrap_result))
       /\ IsSuffix(wrap_result.formatted, WrapException__str__(wrap_result))

\* C10 amended: str(wrapper) is the line break and the line
\* "Original traceback:" followed by the formatted traceback, with nothing
\* before them; it ends with the formatted traceback, whose last line
\* carries str(e).
C10_StrIsHeaderPlusTraceback ==
    wrap_pc = "raised"
    => /\ WrapException__str__(wrap_result)
            = <<"\n", "Original traceback:", "\n">> \o wrap_result.formatted
       /\ IsSuffix(wrap_result.formatted, WrapException__str__(wrap_result))
       /\ IsSuffix(ExceptionStr(wrap_result.exception.args) \o <<"\n">>,
                   WrapException__str__(wrap_result))

\* C10 witness: an exception with a non-empty message has been wrapped.
C10_Witness ==
    /\ wrap_pc = "raised"
    /\ Len(ExceptionStr(wrap_result.exception.args)) = MaxMsgLen

\* The smaller of two integers.
Min(a, b) == IF a <= b THEN a ELSE b

\* The GPU lists of the per-worker argument list, in worker order.
GpuLists ==
    [i \in 1 .. Len(worker_init_kwargs.items) |->
        worker_init_kwargs.items[i].gpu_device_nums]

\* C11: for num_workers >= 1 and every num_gpus >= 0 the call produces a list
\* of exactly num_workers argument sets, each with no GPU id or one GPU id
\* out of 0 .. num_gpus - 1.
C11_OneArgSetPerWorker ==
    (FromGpuArgs /\ NumWorkers(call.num_jobs, cpus) >= 1)
    => /\ ~worker_init_kwargs.isNone
       /\ Len(worker_init_kwargs.items) = NumWorkers(call.num_jobs, cpus)
       /\ \A i \in 1 .. Len(GpuLists) :
            \/ GpuLists[i] = <<>>
            \/ \E gpu \in 0 .. (call.num_gpus - 1) : GpuLists[i] = <<gpu>>

\* C12: with GPUs requested, a worker has an empty GPU list only if every GPU
\* has been assigned max_workers_per_gpu workers of lower index, and the
\* workers with a GPU are exactly the first
\* min(num_workers, num_gpus * max_workers_per_gpu) ones.
C12_GpusBeforeCpu ==
    (FromGpuArgs /\ call.num_gpus >= 1)
    => /\ \A i \in 1 .. Len(GpuLists) :
            GpuLists[i] = <<>>
            => \A gpu \in 0 .. (call.num_gpus - 1) :
                 Count(SubSeq(GpuLists, 1, i - 1), <<gpu>>)
                    = call.max_workers_per_gpu
       /\ \A i \in 1 .. Len(GpuLists) :
            (GpuLists[i] # <<>>)
            <=> (i <= Min(Len(GpuLists),
                          call.num_gpus * call.max_workers_per_gpu))

\* C13: with GPUs requested, every argument set of the list, those of the
\* CPU-only workers included, carries the backend tensorflow-default,
\* whatever backend the caller gave.
C13_BackendForced ==
    (FromGpuArgs /\ call.num_gpus >= 1)
    => /\ ~worker_init_kwargs.isNone
       /\ \A i \in 1 .. Len(worker_init_kwargs.items) :
            worker_init_kwargs.items[i].keras_backend = "tensorflow-default"

\* C13 witness: the caller asked for tensorflow-cpu and GPUs, and a worker
\* beyond the GPUs' capacity got a CPU-only argument set.
C13_Witness ==
    /\ FromGpuArgs
    /\ call.num_gpus >= 1
    /\ call.backend = "tensorflow-cpu"
    /\ \E i \in 1 .. Len(GpuLists) : GpuLists[i] = <<>>

\* Whether s occurs in t as a run of consecutive elements.
Contains(t, s) ==
    \E i \in 0 .. (Len(t) - Len(s)) : SubSeq(t, i + 1, i + Len(s)) = s

HasSlash(s) == \E i \in 1 .. Len(s) : s[i] = "/"

\* The remediation command for a download.
FetchCommand(download_name) ==
    <<"mhcflurry-downloads fetch ">> \o download_name

\* downloads_dir/download_name/filename, for the directory seen by the call.
PlainPath ==
    dl_call.downloads_dir.str \o <<"/">> \o dl_call.download_name
        \o <<"/">> \o dl_call.filename

\* get_path left both globals as they were before the call.
GlobalsUntouched ==
    /\ DOWNLOADS_DIR = dl_call.downloads_dir
    /\ CURRENT_RELEASE = dl_call.current_release

\* The call failed with the error for a missing download (a RuntimeError in
\* the code), its text holding the path as given and the fetch command.
MissingErrorNaming(path) ==
    /\ dl_result.kind = "raise"
    /\ dl_result.type = "RuntimeError"
    /\ Contains(dl_result.text, path)
    /\ Contains(dl_result.text, FetchCommand(dl_call.download_name))

\* C14 as stated: get_path fails with the missing-download error, naming
\* the path and the fetch command, exactly when test_exists is true and
\* downloads_dir/download_name/filename does not exist; in every other case
\* it returns that path; the globals are left unchanged.
C14_MissingOrPath ==
    dl_pc = "done"
    => /\ IF dl_call.test_exists /\ ~exists(PlainPath)
          THEN MissingErrorNaming(PlainPath)
          ELSE dl_result = [kind |-> "return", path |-> PlainPath]
       /\ GlobalsUntouched

\* C14 amended: with a slash in download_name the call fails its assertion
\* in every case, and without a configured directory it fails in the join.
\* Otherwise the path is downloads_dir/download_name/filename, or the
\* filename alone when that is absolute; the call fails with the
\* missing-download error, whose text holds the shell-quoted path and the
\* fetch command, exactly when test_exists is true and the path does not
\* exist, and returns the path in every other case.  The globals are left
\* unchanged in all cases.
C14_MissingOrPathForValidName ==
    dl_pc = "done"
    => /\ GlobalsUntouched
       /\ IF HasSlash(dl_call.download_name)
          THEN dl_result.kind = "raise" /\ dl_result.type = "AssertionError"
          ELSE IF dl_call.downloads_dir.isNone
          THEN dl_result.kind = "raise" /\ dl_result.type = "TypeError"
          ELSE LET path == IF dl_call.filename # <<>>
                              /\ dl_call.filename[1] = "/"
                           THEN dl_call.filename ELSE PlainPath
               IN  IF dl_call.test_exists /\ ~exists(path)
                   THEN MissingErrorNaming(quote(path))
                   ELSE dl_result = [kind |-> "return", path |-> path]

\* C14 witness: a download whose name needs quoting was asked for with
\* test_exists and is missing.
C14_Witness ==
    /\ dl_pc = "done"
    /\ dl_call.download_name = <<"n", "'">>
    /\ dl_call.test_exists
    /\ dl_result.kind = "raise"
    /\ dl_result.type = "RuntimeError"

\* The pool's workers run worker_init_entry_point with the queue pair.
UsesEntryPoint == pool_kwargs.initializer = "worker_init_entry_point"

\* C15: no exit hook is registered before the process has its argument set;
\* from the moment init_function is about to be invoked the hook is
\* registered with the set the process obtained; at teardown the hook
\* appends exactly that set to the primary queue, once, also when
\* init_function raised.
C15_HookReturnsOwnSet ==
    /\ [](\A w \in Workers :
            /\ wpc[w] \in {"start", "backup_get", "backup_put"}
               => finalizers[w] = <<>>
            /\ (UsesEntryPoint /\ wpc[w] \in {"init", "ready", "exiting"})
               => /\ Len(kwargs[w]) = 1
                  /\ finalizers[w] = kwargs[w])
    /\ [][\A w \in Workers :
            (UsesEntryPoint /\ wpc[w] = "exiting" /\ wpc'[w] = "exited")
            => /\ kwargs_queue' = Append(kwargs_queue, kwargs[w][1])
               /\ finalizers'[w] = <<>>]_vars

\* C15 witness: a process that took its set from the backup queue and whose
\* init_function raised (the pool recycles no worker) has run its exit hook.
C15_Witness ==
    /\ UsesEntryPoint
    /\ pool_kwargs.maxtasksperchild = 0
    /\ \E w \in Workers :
          /\ wpc[w] = "exited"
          /\ source[w] = "backup"
          /\ net_primary[w] = 1
          /\ kwargs_queue # <<>>

\* The live processes that hold an argument set.
Holders == {w \in Workers : Live(w) /\ kwargs[w] # <<>>}

ListPassed ==
    IF FromGpuArgs THEN worker_init_kwargs
    ELSE call.initializer_kwargs_per_process

\* C17: when make_worker_pool has built the queue pair, and no worker has
\* read from it, the primary and the backup queue each hold exactly
\* N = processes argument sets: those of the list, in list order.
C17_QueuesFilledAlike ==
    (call.fn # "idle" /\ queues)
    => /\ Len(kwargs_queue) = pool_kwargs.processes
       /\ Len(kwargs_queue_backup) = pool_kwargs.processes
       /\ kwargs_queue = ListPassed.items
       /\ kwargs_queue_backup = ListPassed.items

\* C17 witness: make_worker_pool was called directly with the longest list
\* and built the queue pair.
C17_Witness ==
    /\ call.fn = "make_worker_pool"
    /\ queues
    /\ Len(kwargs_queue) = MaxArgs
    /\ \A w \in Workers : wpc[w] = "start"

\* C20: a call of worker_pool_with_gpu_assignments never fails the length
\* assertion of make_worker_pool: the list it passes, when it passes one,
\* is as long as the processes value it passes, also when num_jobs is 0 and
\* the worker count comes from cpu_count().
C20_NoAssertionFromGpuArgs ==
    FromGpuArgs
    => /\ ret # "AssertionError"
       /\ ~worker_init_kwargs.isNone
          => /\ Len(worker_init_kwargs.items) = pool_kwargs.processes
             /\ pool_kwargs.processes = NumWorkers(call.num_jobs, cpus)

\* C20 witness: num_jobs = 0 with GPUs, on a machine with the largest CPU
\* count: one argument set per CPU was passed and the pool was built.
C20_Witness ==
    /\ FromGpuArgs
    /\ call.num_jobs = 0
    /\ call.num_gpus >= 1
    /\ cpus = MaxCpu
    /\ ret = "pool"
    /\ Len(worker_init_kwargs.items) = MaxCpu

\* C16: in a pool that recycles its workers after k >= 1 tasks and loses
\* none to a crash, no process completes more than k tasks, and a process
\* that replaced an exited one never turns to the backup queue: it takes
\* from the primary queue an entry that an exit hook put there.
C16_RecycledFromPrimary ==
    /\ [](pool_kwargs.maxtasksperchild >= 1
            => \A w \in Workers :
                 /\ tasks[w] <= pool_kwargs.maxtasksperchild
                 /\ (UsesEntryPoint /\ replacement[w])
                    => /\ wpc[w] \notin {"backup_get", "backup_put"}
                       /\ source[w] # "backup")
    /\ [][pool_kwargs.maxtasksperchild >= 1
            => \A w \in Workers :
                 (/\ UsesEntryPoint
                  /\ replacement[w]
                  /\ wpc[w] = "start"
                  /\ wpc'[w] = "init")
                 => fresh = 0]_vars

\* C18: in a pool with a queue pair that loses no process to a crash, the
\* entries of the primary queue and the sets held by live processes are
\* together exactly the N sets the pool was built with; so no set is held
\* by more live processes than the list has copies of it, and no GPU id is
\* configured in more than max_workers_per_gpu live processes.
C18_ArgSetsConserved ==
    queues
    => /\ Range(kwargs_queue) \subseteq Range(OriginalArgs)
       /\ \A w \in Holders : kwargs[w][1] \in Range(OriginalArgs)
       /\ \A x \in Range(OriginalArgs) :
            /\ Count(kwargs_queue, x)
                  + Cardinality({w \in Holders : kwargs[w][1] = x})
                = Count(OriginalArgs, x)
            /\ Cardinality({w \in Holders : kwargs[w][1] = x})
                 <= Count(OriginalArgs, x)
       /\ \A gpu \in 0 .. (call.num_gpus - 1) :
            Cardinality({w \in Holders :
                            kwargs[w][1].gpu_device_nums = <<gpu>>})
                <= call.max_workers_per_gpu
====
